---- MODULE Spec2Model ----
(***************************************************************************)
(* Phone Number Global Inspector (src/main.py): the linear pipeline        *)
(*   __main__ -> get_phone_info -> display_results                         *)
(*                   -> create_location_map -> create_qr_code               *)
(* as a state machine.  Third-party libraries and web services             *)
(* (phonenumbers, pytz, countryinfo, Nominatim) are the environment: each  *)
(* call's outcome is drawn from a small set of the outcomes that call can  *)
(* produce (a value, or an exception).                                     *)
(*                                                                         *)
(* Python strings are sequences of string tokens (concatenation is \o),    *)
(* so that f-strings, str.replace and str.join are computed, not assumed.  *)
(* The decorative emoji of the messages are left out of the string tokens. *)
(***************************************************************************)
EXTENDS Integers, Sequences, FiniteSets, TLC

VARIABLES
    pc,                 \* position in the program
    argv_number,        \* args.number (line 178): PyNone when omitted
    number_to_analyze,  \* line 189/191
    phone_number_obj,   \* line 53
    e164_format,        \* line 59
    location_str,       \* line 61
    timezone_list,      \* line 74
    country_code,       \* line 84
    country_data,       \* line 87
    coords,             \* line 98
    info,               \* the dict built by get_phone_info: <<key, value>> pairs in insertion order
    analysis_result,    \* line 199: [type |-> "str" | "dict", value |-> ...]
    console,            \* what console.print / console.input have shown, in order
    files,              \* the files written (img.save, location_map.save), in order
    calls,              \* every function / library / service call made, in order
    raised              \* every exception raised, in order: [exc |-> its class, at |-> the call or expression]

vars == <<pc, argv_number, number_to_analyze, phone_number_obj, e164_format,
          location_str, timezone_list, country_code, country_data, coords, info,
          analysis_result, console, files, calls, raised>>

----------------------------------------------------------------------------
(* Bounds of the model *)

\* longest timezone tuple time_zones_for_number returns
MaxZones == 2
\* longest 'borders' / 'currencies' list of a country's metadata
MaxList == 2

----------------------------------------------------------------------------
(* Python values *)

PyNone == <<"<None>">>
Unset == <<"<unset>">>

\* bool(v) of a str / list / tuple / None
Truthy(v) == v # PyNone /\ v # <<>>

\* str(v)
Str(v) == IF v = PyNone THEN <<"None">> ELSE v

\* dict.get(key) with the default None
Get(d, k) ==
    IF \E i \in 1..Len(d) : d[i][1] = k
    THEN d[CHOOSE i \in 1..Len(d) : d[i][1] = k][2]
    ELSE PyNone

\* key in dict
Has(d, k) == \E i \in 1..Len(d) : d[i][1] = k

\* dict[key] = value: a new key goes last, an existing key keeps its place
Put(d, k, v) ==
    IF Has(d, k)
    THEN [i \in 1..Len(d) |-> IF d[i][1] = k THEN <<k, v>> ELSE d[i]]
    ELSE Append(d, <<k, v>>)

Keys(d) == {d[i][1] : i \in 1..Len(d)}

\* sep.join(list of str)
RECURSIVE Join(_, _)
Join(sep, l) ==
    IF l = <<>> THEN <<>>
    ELSE IF Len(l) = 1 THEN <<l[1]>>
    ELSE <<l[1], sep>> \o Join(sep, Tail(l))

\* s.replace(old, '') for a one-token old
Remove(s, old) == SelectSeq(s, LAMBDA c : c # old)

\* all sequences over S of length 0..n
SeqsUpTo(S, n) == UNION {[1..k -> S] : k \in 0..n}

----------------------------------------------------------------------------
(* The environment: command line, keyboard, libraries and services *)

\* args.number: omitted (None), or the positional argument as given
CliArgs == {PyNone, <<>>, <<"+14155552671">>, <<"not-a-number">>}

\* what the user types at the prompt
TypedInputs == {<<>>, <<"+14155552671">>, <<"+1415">>}

\* phonenumbers.parse: a number object (one is_valid_number accepts or not),
\* or NumberParseException
ParseOutcomes == {"valid", "invalid", "NumberParseException"}

\* what format_number / number_type return for a parsed number
NumberFormats ==
    { [e164 |-> <<"+", "14155552671">>, intl |-> <<"+1 415-555-2671">>,
       national |-> <<"(415) 555-2671">>, type |-> "MOBILE"],
      [e164 |-> <<"+", "80012345678">>, intl |-> <<"+800 1234 5678">>,
       national |-> <<>>, type |-> "VOIP"] }

\* geocoder.description_for_number
Descriptions == {<<>>, <<"San Francisco, CA">>}

\* carrier.name_for_number
Carriers == {<<>>, <<"Verizon">>}

\* timezone identifiers time_zones_for_number can return; pytz knows PytzZones
TzIds == {"America/Los_Angeles", "Etc/Unknown"}
PytzZones == {"America/Los_Angeles", "Europe/London"}
TimezoneLists == SeqsUpTo(TzIds, MaxZones)

\* region_code_for_number: None, an ISO code, or the non-geographical "001"
RegionCodes == {PyNone, <<"US">>, <<"001">>}

BorderNames == <<"CAN", "MEX", "CUB", "BHS">>
CurrencyNames == <<"USD", "USN", "USS", "USX">>
Prefixes(l, n) == {SubSeq(l, 1, k) : k \in 0..n}

FullCountry(c, b) ==
    [name |-> <<"United States">>, capital |-> <<"Washington D.C.">>,
     currencies |-> c, region |-> <<"Americas">>, borders |-> b]

\* the metadata dict CountryInfo(code).info() returns for a known country:
\* complete, or lacking the 'currencies' or the 'borders' key
CountryDicts ==
    {FullCountry(c, b) : c \in Prefixes(CurrencyNames, MaxList),
                         b \in Prefixes(BorderNames, MaxList)}
    \cup {[name |-> <<"United States">>, capital |-> <<"Washington D.C.">>,
           region |-> <<"Americas">>, borders |-> <<"CAN", "MEX">>]}
    \cup {[name |-> <<"United States">>, capital |-> <<"Washington D.C.">>,
           currencies |-> <<"USD">>, region |-> <<"Americas">>]}

\* country_data before line 87 assigns it
NoData == [unbound |-> TRUE]

\* CountryInfo(code).info(): the dict of a known country, KeyError for a code
\* the package has no entry for
CountryOutcomes(code) ==
    IF code = <<"001">>
    THEN {[exc |-> "KeyError", data |-> NoData]}
    ELSE {[exc |-> "none", data |-> d] : d \in CountryDicts}

\* a geocoding match: (latitude, longitude) in units of 1e-5 degree
Matches == {<<3777493, -12241942>>}

\* geolocator.geocode: a match, no match (None), or a geopy exception
\* (GeocoderServiceError is the base class of geopy's service errors, here one
\* that is neither GeocoderTimedOut nor GeocoderUnavailable)
GeocodeOutcomes ==
    {[kind |-> "match", at |-> m] : m \in Matches}
    \cup {[kind |-> k, at |-> <<0, 0>>] :
            k \in {"no_match", "GeocoderTimedOut", "GeocoderUnavailable",
                   "GeocoderServiceError"}}

----------------------------------------------------------------------------
(* Messages *)

TitlePanel == <<"Ultimate Edition v8.1">>
PromptText == <<"Enter a phone number (e.g., +14155552671): ">>
NoNumberMsg == <<"No number was provided. Exiting program.">>
InvalidMsg == <<"Error: Invalid phone number format.">>
ParseFailMsg(s) == <<"Error: Failed to parse '">> \o Str(s) \o <<"'. Please check the format.">>
UnexpectedMsg(e) == <<"An unexpected error occurred: ", e>>
GeocodingWarning == <<"Geocoding service is unavailable or timed out.">>
OutputsRule == <<"--- Generated Outputs ">> \o [i \in 1..50 |-> "-"]
Disclaimer == <<"Disclaimer: The map shows the geographical center of the AREA CODE, not a real-time GPS location.">>
InvalidTzMsg == <<"Invalid timezone data.">>
CountryFallback == <<"Could not retrieve.">>

Out(kind, text) == [kind |-> kind, text |-> text, rows |-> <<>>]

----------------------------------------------------------------------------
(* get_phone_info and get_coordinates: the computations *)

NUMBER_TYPE_MAP ==
    [t \in {"FIXED_LINE", "MOBILE", "TOLL_FREE", "PREMIUM_RATE", "UNKNOWN"} |->
        CASE t = "FIXED_LINE" -> <<"Fixed Line">>
          [] t = "MOBILE" -> <<"Mobile">>
          [] t = "TOLL_FREE" -> <<"Toll-Free">>
          [] t = "PREMIUM_RATE" -> <<"Premium Rate">>
          [] t = "UNKNOWN" -> <<"Unknown">>]

\* NUMBER_TYPE_MAP.get(t, "Other")
NumberTypeName(t) ==
    IF t \in DOMAIN NUMBER_TYPE_MAP THEN NUMBER_TYPE_MAP[t] ELSE <<"Other">>

\* x or "N/A"
OrNA(x) == IF Truthy(x) THEN x ELSE <<"N/A">>

\* the library calls of lines 59-70, in evaluation order
BasicCalls ==
    <<"format_number:E164", "description_for_number", "format_number:INTERNATIONAL",
      "format_number:NATIONAL", "number_type", "name_for_number">>

\* the dict literal of lines 63-71
BasicInfo(n, loc, car) ==
    << <<"E.164 Format", n.e164>>,
       <<"International Format", n.intl>>,
       <<"National Format", OrNA(n.national)>>,
       <<"Number Type", NumberTypeName(n.type)>>,
       <<"Area Code Location", IF Truthy(loc) THEN loc ELSE <<"N/A">> >>,
       <<"Mobile Carrier", OrNA(car)>> >>

\* timezone_list[-1] in place of timezone_list[0]
FirstTimezone_Last(tzl) == tzl[Len(tzl)]

\* timezone_list[0]
FirstTimezone(tzl) == tzl[1]

\* datetime.now(pytz.timezone(tz)).strftime('%A, %Y-%m-%d, %H:%M:%S %Z%z'):
\* the wall clock is outside the model, the value keeps the zone it was made in
LocalTime(tz) == <<"%A, %Y-%m-%d, %H:%M:%S %Z%z in ", tz>>

\* lines 75-81
TimezoneEntry(d, tzl) ==
    IF ~Truthy(tzl) THEN d
    ELSE LET first_timezone == FirstTimezone(tzl)
         IN IF first_timezone \in PytzZones
            THEN Put(d, "Current Local Time", LocalTime(first_timezone))
            ELSE Put(d, "Current Local Time", InvalidTzMsg)

\* country_data.get(key)
DataGet(cd, k) == IF k \in DOMAIN cd THEN cd[k] ELSE PyNone

\* the exceptions the handler of line 93 catches
CountryHandled == {"KeyError", "IndexError"}

\* the try body, lines 87-92: the dict as far as it got, and the exception
\* raised ("none" when the body completes)
CountryTry(d, code, out) ==
    IF out.exc # "none" THEN [info |-> d, exc |-> out.exc, at |-> "CountryInfo.info"]
    ELSE
    LET data == out.data
        d1 == Put(d, "Country", Str(DataGet(data, "name")) \o <<" (">> \o code \o <<")">>)
        d2 == Put(d1, "Capital City", DataGet(data, "capital"))
        currencies == DataGet(data, "currencies")
        borders == DataGet(data, "borders")
    IN  IF currencies = PyNone THEN [info |-> d2, exc |-> "TypeError", at |-> "currencies[0]"]
        ELSE IF currencies = <<>> THEN [info |-> d2, exc |-> "IndexError", at |-> "currencies[0]"]
        ELSE
        LET d3 == Put(d2, "Currency", <<currencies[1]>>)
            d4 == Put(d3, "Continent / Region", DataGet(data, "region"))
            d5 == Put(d4, "Bordering Countries",
                      IF Truthy(borders) THEN Join(", ", borders) ELSE <<"None">>)
        IN  [info |-> d5, exc |-> "none", at |-> ""]

\* lines 86-94: the try body and its handler
CountryStep(d, code, out) ==
    LET r == CountryTry(d, code, out)
    IN  IF r.exc \in CountryHandled
        THEN [info |-> Put(r.info, "Country Info", CountryFallback), exc |-> "none", at |-> ""]
        ELSE r

\* line 46 catching GeocoderTimedOut alone
GeocoderHandled_TimeoutOnly == {"GeocoderTimedOut"}

\* the exceptions the handler of line 46 catches
GeocoderHandled == {"GeocoderTimedOut", "GeocoderUnavailable"}

NoCoords == [is_none |-> TRUE, lat |-> 0, lon |-> 0]

\* get_coordinates: the value returned (None, or the pair), whether the
\* warning was printed, and the exception that escapes ("none" if none does)
GetCoordinates(outcome) ==
    IF outcome.kind = "match"
    THEN [ret |-> [is_none |-> FALSE, lat |-> outcome.at[1], lon |-> outcome.at[2]],
          warned |-> FALSE, exc |-> "none"]
    ELSE IF outcome.kind = "no_match"
    THEN [ret |-> NoCoords, warned |-> FALSE, exc |-> "none"]
    ELSE IF outcome.kind \in GeocoderHandled
    THEN [ret |-> NoCoords, warned |-> TRUE, exc |-> "none"]
    ELSE [ret |-> NoCoords, warned |-> FALSE, exc |-> outcome.kind]

Abs(x) == IF x < 0 THEN -x ELSE x
Sign(x) == IF x < 0 THEN <<"-">> ELSE <<>>

\* n as a decimal numeral of at least w digits
RECURSIVE Pad(_, _)
Pad(n, w) ==
    IF w <= 1 THEN <<ToString(n)>>
    ELSE IF n < 10 THEN <<"0">> \o Pad(n, w - 1)
    ELSE Pad(n \div 10, w - 1) \o <<ToString(n % 10)>>

\* f"{x:.4f}" of a coordinate given in 1e-5 degree: rounded to 4 decimals
Fixed4(x) ==
    LET q == (Abs(x) + 5) \div 10
    IN  Sign(x) \o <<ToString(q \div 10000), ".">> \o Pad(q % 10000, 4)

\* f"{x}" of a coordinate given in 1e-5 degree: all its decimals
Repr(x) ==
    Sign(x) \o <<ToString(Abs(x) \div 100000), ".">> \o Pad(Abs(x) % 100000, 5)

\* lines 100-101 without line 102
GeoEntries_NoLink(d, c) ==
    Put(Put(d, "Latitude", Fixed4(c.lat)), "Longitude", Fixed4(c.lon))

\* lines 100-102
GeoEntries(d, c) ==
    LET d1 == Put(d, "Latitude", Fixed4(c.lat))
        d2 == Put(d1, "Longitude", Fixed4(c.lon))
    IN  Put(d2, "Google Maps Link",
            <<"https://maps.google.com/maps?q=">> \o Repr(c.lat) \o <<",">> \o Repr(c.lon))

\* line 105
WhatsAppLink(e164) == <<"https://wa.me/">> \o Remove(e164, "+")

StrResult(msg) == [type |-> "str", value |-> msg]
DictResult(d) == [type |-> "dict", value |-> d]

----------------------------------------------------------------------------
(* The artifact generators: the computations *)

\* create_qr_code without the guard of line 117
QrWrites_Unguarded(d) ==
    << [name |-> <<"contact_">> \o Str(Get(d, "E.164 Format")) \o <<".png">>,
        by |-> "create_qr_code"] >>

\* create_qr_code, lines 116-126: the files it writes
QrWrites(d) ==
    LET e164 == Get(d, "E.164 Format")
    IN  IF ~Truthy(e164) THEN <<>>
        ELSE << [name |-> <<"contact_">> \o e164 \o <<".png">>, by |-> "create_qr_code"] >>

\* create_location_map, lines 131-152: the files it writes
MapWrites(d) ==
    IF ~Has(d, "Latitude") \/ ~Has(d, "Longitude") THEN <<>>
    ELSE << [name |-> <<"map_">> \o Str(Get(d, "E.164 Format")) \o <<".html">>,
             by |-> "create_location_map"] >>

\* the confirmation each generator prints per file written (lines 127, 153)
Saved(writes) == [i \in 1..Len(writes) |-> Out("print", <<"saved '">> \o writes[i].name \o <<"'">>)]

\* the rows in reverse order
TableRows_Reversed(d) == [i \in 1..Len(d) |-> <<d[Len(d) + 1 - i][1], Str(d[Len(d) + 1 - i][2])>>]

\* the table of lines 160-164: one row per item, in the dict's order
TableRows(d) == [i \in 1..Len(d) |-> <<d[i][1], Str(d[i][2])>>]

----------------------------------------------------------------------------
(* The program *)

Init ==
    /\ pc = "main"
    /\ argv_number \in CliArgs
    /\ number_to_analyze = Unset
    /\ phone_number_obj = [parsed |-> FALSE, valid |-> FALSE]
    /\ e164_format = Unset
    /\ location_str = Unset
    /\ timezone_list = Unset
    /\ country_code = Unset
    /\ country_data = NoData
    /\ coords = NoCoords
    /\ info = <<>>
    /\ analysis_result = [type |-> "unset", value |-> <<>>]
    /\ console = <<>>
    /\ files = <<>>
    /\ calls = <<>>
    /\ raised = <<>>

\* `return result` from get_phone_info, back to line 199
Return(result) ==
    /\ analysis_result' = result
    /\ pc' = "display"

Raise(exc, at) == raised' = Append(raised, [exc |-> exc, at |-> at])

\* lines 174-190: the title panel, number_to_analyze = args.number
MainArgs ==
    /\ pc = "main"
    /\ console' = Append(console, Out("panel", TitlePanel))
    /\ number_to_analyze' = argv_number
    /\ pc' = IF ~Truthy(argv_number) THEN "prompt" ELSE "check"
    /\ UNCHANGED <<argv_number, phone_number_obj, e164_format, location_str,
                   timezone_list, country_code, country_data, coords, info,
                   analysis_result, files, calls, raised>>

\* line 191: the interactive prompt
MainPrompt ==
    /\ pc = "prompt"
    /\ \E typed \in TypedInputs :
          /\ number_to_analyze' = typed
          /\ console' = Append(console, Out("input", PromptText))
    /\ calls' = Append(calls, "console.input")
    /\ pc' = "check"
    /\ UNCHANGED <<argv_number, phone_number_obj, e164_format, location_str,
                   timezone_list, country_code, country_data, coords, info,
                   analysis_result, files, raised>>

\* MainCheck without the test of line 194
MainCheck_Unguarded ==
    /\ pc = "check"
    /\ pc' = "parse"
    /\ calls' = Append(calls, "get_phone_info")
    /\ UNCHANGED <<argv_number, number_to_analyze, phone_number_obj, e164_format,
                   location_str, timezone_list, country_code, country_data, coords,
                   info, analysis_result, console, files, raised>>

\* lines 194-199: no number, or the call of get_phone_info
MainCheck ==
    /\ pc = "check"
    /\ IF ~Truthy(number_to_analyze)
       THEN /\ console' = Append(console, Out("print", NoNumberMsg))
            /\ pc' = "done"
            /\ calls' = calls
       ELSE /\ console' = console
            /\ pc' = "parse"
            /\ calls' = Append(calls, "get_phone_info")
    /\ UNCHANGED <<argv_number, number_to_analyze, phone_number_obj, e164_format,
                   location_str, timezone_list, country_code, country_data, coords,
                   info, analysis_result, files, raised>>

\* line 53, with the handler of lines 109-110
GpiParse ==
    /\ pc = "parse"
    /\ calls' = Append(calls, "phonenumbers.parse")
    /\ \E outcome \in ParseOutcomes :
          CASE outcome = "NumberParseException" ->
                  /\ Raise(outcome, "phonenumbers.parse")
                  /\ Return(StrResult(ParseFailMsg(number_to_analyze)))
                  /\ UNCHANGED phone_number_obj
            [] OTHER ->
                  /\ phone_number_obj' = [parsed |-> TRUE, valid |-> (outcome = "valid")]
                  /\ pc' = "validate"
                  /\ UNCHANGED <<analysis_result, raised>>
    /\ UNCHANGED <<argv_number, number_to_analyze, e164_format, location_str,
                   timezone_list, country_code, country_data, coords, info,
                   console, files>>

\* GpiValidate without the test of line 55
GpiValidate_Unchecked ==
    /\ pc = "validate"
    /\ calls' = Append(calls, "is_valid_number")
    /\ pc' = "basic"
    /\ UNCHANGED <<argv_number, number_to_analyze, phone_number_obj, e164_format,
                   location_str, timezone_list, country_code, country_data, coords,
                   info, analysis_result, console, files, raised>>

\* lines 55-56
GpiValidate ==
    /\ pc = "validate"
    /\ calls' = Append(calls, "is_valid_number")
    /\ IF ~phone_number_obj.valid
       THEN Return(StrResult(InvalidMsg))
       ELSE pc' = "basic" /\ UNCHANGED analysis_result
    /\ UNCHANGED <<argv_number, number_to_analyze, phone_number_obj, e164_format,
                   location_str, timezone_list, country_code, country_data, coords,
                   info, console, files, raised>>

\* lines 59-71: e164_format, location_str and the dict literal
GpiBasic ==
    /\ pc = "basic"
    /\ \E n \in NumberFormats, loc \in Descriptions, car \in Carriers :
          /\ e164_format' = n.e164
          /\ location_str' = loc
          /\ info' = BasicInfo(n, loc, car)
    /\ calls' = calls \o BasicCalls
    /\ pc' = "timezone"
    /\ UNCHANGED <<argv_number, number_to_analyze, phone_number_obj,
                   timezone_list, country_code, country_data, coords,
                   analysis_result, console, files, raised>>

\* lines 74-81
GpiTimezone ==
    /\ pc = "timezone"
    /\ \E tzl \in TimezoneLists :
          /\ calls' = calls \o <<"time_zones_for_number">>
                         \o (IF Truthy(tzl) THEN <<"pytz.timezone">> ELSE <<>>)
          /\ timezone_list' = tzl
          /\ info' = TimezoneEntry(info, tzl)
          /\ IF Truthy(tzl) /\ FirstTimezone(tzl) \notin PytzZones
             THEN Raise("UnknownTimeZoneError", "pytz.timezone")
             ELSE UNCHANGED raised
    /\ pc' = "country"
    /\ UNCHANGED <<argv_number, number_to_analyze, phone_number_obj, e164_format,
                   location_str, country_code, country_data, coords,
                   analysis_result, console, files>>

\* lines 84-94, with the handler of lines 111-112 for what line 93 lets through
GpiCountry ==
    /\ pc = "country"
    /\ \E code \in RegionCodes :
          /\ country_code' = code
          /\ IF ~Truthy(code)
             THEN /\ calls' = Append(calls, "region_code_for_number")
                  /\ pc' = "geo"
                  /\ UNCHANGED <<country_data, info, analysis_result, raised>>
             ELSE /\ calls' = calls \o <<"region_code_for_number", "CountryInfo.info">>
                  /\ \E out \in CountryOutcomes(code) :
                        LET body == CountryTry(info, code, out)
                            r == CountryStep(info, code, out)
                        IN  /\ country_data' = out.data
                            /\ info' = r.info
                            /\ IF body.exc = "none" THEN UNCHANGED raised
                               ELSE Raise(body.exc, body.at)
                            /\ IF r.exc = "none"
                               THEN pc' = "geo" /\ UNCHANGED analysis_result
                               ELSE Return(StrResult(UnexpectedMsg(r.exc)))
    /\ UNCHANGED <<argv_number, number_to_analyze, phone_number_obj, e164_format,
                   location_str, timezone_list, coords, console, files>>

\* lines 97-102, with get_coordinates (lines 39-48) and the handler of lines
\* 111-112 for what line 46 lets through
GpiGeo ==
    /\ pc = "geo"
    /\ IF ~Truthy(location_str)
       THEN /\ pc' = "links"
            /\ UNCHANGED <<calls, coords, info, console, analysis_result, raised>>
       ELSE /\ calls' = calls \o <<"get_coordinates", "time.sleep", "geolocator.geocode">>
            /\ \E outcome \in GeocodeOutcomes :
                  LET g == GetCoordinates(outcome)
                  IN  /\ console' = IF g.warned
                                    THEN Append(console, Out("print", GeocodingWarning))
                                    ELSE console
                      /\ IF outcome.kind \in {"match", "no_match"} THEN UNCHANGED raised
                         ELSE Raise(outcome.kind, "geolocator.geocode")
                      /\ IF g.exc # "none"
                         THEN /\ Return(StrResult(UnexpectedMsg(g.exc)))
                              /\ UNCHANGED <<coords, info>>
                         ELSE /\ coords' = g.ret
                              /\ info' = IF g.ret.is_none THEN info
                                         ELSE GeoEntries(info, g.ret)
                              /\ pc' = "links"
                              /\ UNCHANGED analysis_result
    /\ UNCHANGED <<argv_number, number_to_analyze, phone_number_obj, e164_format,
                   location_str, timezone_list, country_code, country_data, files>>

\* lines 105-107
GpiLinks ==
    /\ pc = "links"
    /\ info' = Put(info, "WhatsApp Link", WhatsAppLink(e164_format))
    /\ Return(DictResult(info'))
    /\ UNCHANGED <<argv_number, number_to_analyze, phone_number_obj, e164_format,
                   location_str, timezone_list, country_code, country_data, coords,
                   console, files, calls, raised>>

\* display_results, lines 157-158: the error panel
DisplayError ==
    /\ pc = "display"
    /\ analysis_result.type = "str"
    /\ calls' = Append(calls, "display_results")
    /\ console' = Append(console, Out("error_panel", analysis_result.value))
    /\ pc' = "done"
    /\ UNCHANGED <<argv_number, number_to_analyze, phone_number_obj, e164_format,
                   location_str, timezone_list, country_code, country_data, coords,
                   info, analysis_result, files, raised>>

\* display_results, lines 159-167: the table, then the rule above the outputs
DisplayTable ==
    /\ pc = "display"
    /\ analysis_result.type = "dict"
    /\ calls' = Append(calls, "display_results")
    /\ console' = console \o
          << [kind |-> "table", text |-> <<"Phone Number Analysis Results">>,
              rows |-> TableRows(analysis_result.value)],
             Out("print", OutputsRule) >>
    /\ pc' = "map"
    /\ UNCHANGED <<argv_number, number_to_analyze, phone_number_obj, e164_format,
                   location_str, timezone_list, country_code, country_data, coords,
                   info, analysis_result, files, raised>>

\* line 168 and create_location_map, lines 129-153
CreateLocationMap ==
    /\ pc = "map"
    /\ calls' = Append(calls, "create_location_map")
    /\ LET writes == MapWrites(analysis_result.value)
       IN  /\ files' = files \o writes
           /\ console' = console \o Saved(writes)
    /\ pc' = "qr"
    /\ UNCHANGED <<argv_number, number_to_analyze, phone_number_obj, e164_format,
                   location_str, timezone_list, country_code, country_data, coords,
                   info, analysis_result, raised>>

\* line 169 and create_qr_code, lines 114-127
CreateQrCode ==
    /\ pc = "qr"
    /\ calls' = Append(calls, "create_qr_code")
    /\ LET writes == QrWrites(analysis_result.value)
       IN  /\ files' = files \o writes
           /\ console' = console \o Saved(writes)
    /\ pc' = "disclaimer"
    /\ UNCHANGED <<argv_number, number_to_analyze, phone_number_obj, e164_format,
                   location_str, timezone_list, country_code, country_data, coords,
                   info, analysis_result, raised>>

\* line 170
DisplayDisclaimer ==
    /\ pc = "disclaimer"
    /\ console' = Append(console, Out("print", Disclaimer))
    /\ pc' = "done"
    /\ UNCHANGED <<argv_number, number_to_analyze, phone_number_obj, e164_format,
                   location_str, timezone_list, country_code, country_data, coords,
                   info, analysis_result, files, calls, raised>>

Next ==
    \/ MainArgs
    \/ MainPrompt
    \/ MainCheck
    \/ GpiParse
    \/ GpiValidate
    \/ GpiBasic
    \/ GpiTimezone
    \/ GpiCountry
    \/ GpiGeo
    \/ GpiLinks
    \/ DisplayError
    \/ DisplayTable
    \/ CreateLocationMap
    \/ CreateQrCode
    \/ DisplayDisclaimer

Spec == Init /\ [][Next]_vars

----------------------------------------------------------------------------
(* display_results on an arbitrary record: the artifact generators are       *)
(* functions of the dict they are handed, whoever built it                   *)

Absent == <<"<absent>">>

\* a dict holding, in this order, those of the keys that are given a value
RecordOf(e164, lat, lon, area, link) ==
    SelectSeq(<< <<"E.164 Format", e164>>, <<"Area Code Location", area>>,
                 <<"Latitude", lat>>, <<"Longitude", lon>>,
                 <<"WhatsApp Link", link>> >>,
              LAMBDA kv : kv[2] # Absent)

Records ==
    {RecordOf(e164, lat, lon, area, link) :
        e164 \in {Absent, <<>>, <<"+", "14155552671">>, <<"+", "80012345678">>},
        lat \in {Absent, Fixed4(3777493)},
        lon \in {Absent, Fixed4(-12241942)},
        area \in {Absent, <<"San Francisco, CA">>},
        link \in {Absent, <<"https://wa.me/14155552671">>}}

InitGen ==
    /\ pc = "display"
    /\ \E r \in {DictResult(d) : d \in Records}
                  \cup {StrResult(InvalidMsg), StrResult(ParseFailMsg(<<"not-a-number">>))} :
          /\ analysis_result = r
          /\ info = IF r.type = "dict" THEN r.value ELSE <<>>
    /\ argv_number = PyNone
    /\ number_to_analyze = Unset
    /\ phone_number_obj = [parsed |-> FALSE, valid |-> FALSE]
    /\ e164_format = Unset
    /\ location_str = Unset
    /\ timezone_list = Unset
    /\ country_code = Unset
    /\ country_data = NoData
    /\ coords = NoCoords
    /\ console = <<>>
    /\ files = <<>>
    /\ calls = <<>>
    /\ raised = <<>>

NextGen ==
    \/ DisplayError
    \/ DisplayTable
    \/ CreateLocationMap
    \/ CreateQrCode
    \/ DisplayDisclaimer

SpecGen == InitGen /\ [][NextGen]_vars

----------------------------------------------------------------------------
(* Vocabulary of the properties *)

Called(c) == \E i \in 1..Len(calls) : calls[i] = c
TimesCalled(c) == Cardinality({i \in 1..Len(calls) : calls[i] = c})
Raised(e) == \E i \in 1..Len(raised) : raised[i].exc = e
Printed(kind, text) == \E i \in 1..Len(console) : console[i].kind = kind /\ console[i].text = text
WrittenBy(f) == SelectSeq(files, LAMBDA w : w.by = f)

\* get_phone_info has returned
Returned == analysis_result.type # "unset"
ReturnedRecord == analysis_result.type = "dict"

\* every call get_phone_info makes after is_valid_number, and both generators
EnrichmentCalls ==
    {BasicCalls[i] : i \in 1..Len(BasicCalls)}
    \cup {"time_zones_for_number", "pytz.timezone", "region_code_for_number",
          "CountryInfo.info", "get_coordinates", "time.sleep", "geolocator.geocode"}
GeneratorCalls == {"create_location_map", "create_qr_code"}

BasicKeys ==
    {"E.164 Format", "International Format", "National Format", "Number Type",
     "Area Code Location", "Mobile Carrier"}
GeoKeys == {"Latitude", "Longitude", "Google Maps Link"}
CountryKeys ==
    {"Country", "Capital City", "Currency", "Continent / Region", "Bordering Countries"}

HasGeocodeError == \E i \in 1..Len(raised) : raised[i].at = "geolocator.geocode"

----------------------------------------------------------------------------
(* C1 *)

ParseFailed == Raised("NumberParseException")
ValidityFailed == Called("is_valid_number") /\ ~phone_number_obj.valid

\* C1: once parsing has raised NumberParseException or is_valid_number has
\* answered false, get_phone_info has returned a string (not a dict), no
\* enrichment lookup, geocoding call or artifact generator is ever called, no
\* file is written, and display_results ends on the error panel showing that
\* string.
C1_InvalidNumberYieldsErrorOnly ==
    (ParseFailed \/ ValidityFailed) =>
        /\ pc \in {"display", "done"}
        /\ analysis_result.type = "str"
        /\ \A i \in 1..Len(calls) : calls[i] \notin EnrichmentCalls \cup GeneratorCalls
        /\ files = <<>>
        /\ pc = "done" =>
              /\ calls[Len(calls)] = "display_results"
              /\ console[Len(console)] = Out("error_panel", analysis_result.value)

C1_Witness ==
    /\ pc = "done"
    /\ ValidityFailed
    /\ analysis_result = StrResult(InvalidMsg)
    /\ Printed("error_panel", InvalidMsg)

----------------------------------------------------------------------------
(* C9 *)

\* C9: with no command-line number (omitted or empty) and an empty answer at
\* the prompt, the program prints the "No number was provided" message and is
\* done, having called nothing but the prompt (no get_phone_info, no
\* display_results, no geocoder, no generator) and written no file; with a
\* non-empty command-line number, that very string is the one analysed and
\* the prompt is never shown.
C9_InputResolution ==
    /\ (/\ ~Truthy(argv_number)
        /\ Called("console.input")
        /\ ~Truthy(number_to_analyze)
        /\ pc # "check")
       => /\ pc = "done"
          /\ calls = <<"console.input">>
          /\ files = <<>>
          /\ analysis_result.type = "unset"
          /\ console[Len(console)] = Out("print", NoNumberMsg)
    /\ (Truthy(argv_number) /\ pc # "main")
       => /\ number_to_analyze = argv_number
          /\ ~Called("console.input")
          /\ \A i \in 1..Len(console) : console[i].kind # "input"
          /\ pc # "check" => calls[1] = "get_phone_info"

C9_Witness ==
    /\ pc = "done"
    /\ argv_number = <<>>
    /\ number_to_analyze = <<>>
    /\ Called("console.input")
    /\ Printed("print", NoNumberMsg)

----------------------------------------------------------------------------
(* C7 *)

\* C7: in every returned record "Current Local Time" depends on the first
\* timezone identifier only: absent when the tuple is empty, exactly
\* "Invalid timezone data." when pytz does not know the first identifier,
\* and the time formatted in the first identifier's zone otherwise.
C7_LocalTimeFromFirstZone ==
    ReturnedRecord =>
        LET R == analysis_result.value
        IN  IF timezone_list = <<>>
            THEN ~Has(R, "Current Local Time")
            ELSE /\ Has(R, "Current Local Time")
                 /\ Get(R, "Current Local Time") =
                       IF timezone_list[1] \in PytzZones
                       THEN <<"%A, %Y-%m-%d, %H:%M:%S %Z%z in ", timezone_list[1]>>
                       ELSE <<"Invalid timezone data.">>

C7_Witness ==
    /\ ReturnedRecord
    /\ Len(timezone_list) = 2
    /\ timezone_list[1] \notin PytzZones
    /\ timezone_list[2] \in PytzZones
    /\ Get(analysis_result.value, "Current Local Time") = <<"Invalid timezone data.">>

----------------------------------------------------------------------------
(* C6 *)

\* C6: in every returned record Latitude, Longitude and Google Maps Link are
\* all present or all absent; they are present only if the area description
\* was non-empty, the geocoder was called and it returned a match; and when
\* none is present create_location_map, once called, has written no file.
C6_GeoKeysAllOrNone ==
    ReturnedRecord =>
        LET n == Cardinality(GeoKeys \cap Keys(analysis_result.value))
        IN  /\ n \in {0, 3}
            /\ n = 3 => /\ Truthy(location_str)
                        /\ Called("geolocator.geocode")
                        /\ ~coords.is_none
            /\ (coords.is_none \/ ~Truthy(location_str)) => n = 0
            /\ (n = 0 /\ Called("create_location_map"))
                  => WrittenBy("create_location_map") = <<>>

C6_Witness ==
    /\ pc = "done"
    /\ ReturnedRecord
    /\ Called("geolocator.geocode")
    /\ raised = <<>>
    /\ coords.is_none
    /\ GeoKeys \cap Keys(analysis_result.value) = {}
    /\ Called("create_location_map")

----------------------------------------------------------------------------
(* C3 *)

GeocodeRaised(excs) ==
    \E i \in 1..Len(raised) :
        raised[i].at = "geolocator.geocode" /\ raised[i].exc \in excs

\* what C3 promises of a run whose geocoding call failed
GeocodeFailureContained ==
    /\ coords.is_none
    /\ ReturnedRecord
    /\ GeoKeys \cap Keys(analysis_result.value) = {}
    /\ BasicKeys \cup {"WhatsApp Link"} \subseteq Keys(analysis_result.value)

\* C3 as stated: whatever exception the geocoding call raised (timeout,
\* unavailability or any other service error), get_coordinates returned None
\* and get_phone_info returned a dict without Latitude, Longitude and Google
\* Maps Link but with the other keys, WhatsApp Link included.
C3_AnyGeocodeFailureContained ==
    (Returned /\ HasGeocodeError) => GeocodeFailureContained

\* C3 (amended): when the geocoding call raised GeocoderTimedOut or
\* GeocoderUnavailable, the warning was printed, get_coordinates returned
\* None and get_phone_info returned a dict without Latitude, Longitude and
\* Google Maps Link but with the other keys, WhatsApp Link included.
C3_TimeoutOrUnavailableContained ==
    (Returned /\ GeocodeRaised({"GeocoderTimedOut", "GeocoderUnavailable"})) =>
        /\ GeocodeFailureContained
        /\ Printed("print", GeocodingWarning)

C3_Witness ==
    /\ pc = "done"
    /\ GeocodeRaised({"GeocoderUnavailable"})
    /\ GeocodeFailureContained
    /\ Printed("print", GeocodingWarning)

----------------------------------------------------------------------------
(* C2 *)

\* the metadata lookup failed: the country is unknown to the package, or its
\* dict lacks 'currencies', or its 'currencies' list is empty
CountryLookupFailed ==
    /\ Called("CountryInfo.info")
    /\ \/ "unbound" \in DOMAIN country_data
       \/ "currencies" \notin DOMAIN country_data
       \/ country_data.currencies = <<>>

\* C2: when the country-metadata lookup of a valid number with a region code
\* failed (and the geocoding call raised nothing), get_phone_info returned a
\* dict holding the six keys computed before the country step, the entry
\* "Country Info" = "Could not retrieve." and the WhatsApp Link.
C2_CountryFailureContained ==
    (Returned /\ CountryLookupFailed /\ ~HasGeocodeError) =>
        /\ ReturnedRecord
        /\ BasicKeys \cup {"WhatsApp Link"} \subseteq Keys(analysis_result.value)
        /\ Get(analysis_result.value, "Country Info") = <<"Could not retrieve.">>

----------------------------------------------------------------------------
(* C10 *)

\* C10: in every returned record the country group is all or nothing: the
\* five country keys without the "Country Info" fallback, or the fallback
\* without any of the five, or (empty region code) none of the six.
C10_CountryGroupAtomic ==
    ReturnedRecord =>
        LET K == Keys(analysis_result.value)
        IN  \/ CountryKeys \subseteq K /\ "Country Info" \notin K
            \/ "Country Info" \in K /\ CountryKeys \cap K = {}
            \/ ~Truthy(country_code) /\ (CountryKeys \cup {"Country Info"}) \cap K = {}

----------------------------------------------------------------------------
(* C4 *)

\* where the derivations of lines 59-94 raise: timezone resolution (line 78)
\* and country metadata (lines 87, 90)
DerivationSites == {"pytz.timezone", "CountryInfo.info", "currencies[0]"}

\* C4: when one derivation of a valid number raised (and the geocoding call
\* raised nothing), get_phone_info still returned a dict, carried on to its
\* last derivation (the WhatsApp Link).
C4_DerivationsBestEffort ==
    (/\ Returned
     /\ \E i \in 1..Len(raised) : raised[i].at \in DerivationSites
     /\ ~HasGeocodeError)
    => /\ ReturnedRecord
       /\ Has(analysis_result.value, "WhatsApp Link")

----------------------------------------------------------------------------
(* C8 *)

\* C8: display_results on a dict: the table holds one row per item in the
\* dict's order and is printed before any generator is called; then
\* create_location_map and then create_qr_code are called, once each; the
\* disclaimer is printed once, after both, and is the last output; and the
\* dict is, throughout, the one get_phone_info returned.
C8_DisplayOrder ==
    (ReturnedRecord /\ pc # "display") =>
        LET tables == {i \in 1..Len(console) : console[i].kind = "table"}
            notes == {i \in 1..Len(console) : console[i] = Out("print", Disclaimer)}
        IN  /\ analysis_result.value = info
            /\ Cardinality(tables) = 1
            /\ \A i \in tables :
                  /\ console[i].rows = [k \in 1..Len(info) |-> <<info[k][1], Str(info[k][2])>>]
                  /\ \A j \in 1..Len(console) :
                        (console[j].kind = "print" /\ console[j].text[1] = "saved '") => i < j
            /\ TimesCalled("create_location_map") = (IF pc \in {"qr", "disclaimer", "done"} THEN 1 ELSE 0)
            /\ TimesCalled("create_qr_code") = (IF pc \in {"disclaimer", "done"} THEN 1 ELSE 0)
            /\ notes = (IF pc = "done" THEN {Len(console)} ELSE {})
            /\ pc = "done" => SubSeq(calls, Len(calls) - 2, Len(calls))
                                = <<"display_results", "create_location_map", "create_qr_code">>

C8_Witness ==
    /\ pc = "done"
    /\ ReturnedRecord
    /\ Len(files) = 2
    /\ Len(analysis_result.value) >= 10
    /\ console[Len(console)] = Out("print", Disclaimer)

----------------------------------------------------------------------------
(* C5 *)

\* create_qr_code on record R: one file contact_<E164>.png exactly when
\* "E.164 Format" is present and non-empty, and no file otherwise
QrRule(R) ==
    LET e164 == Get(R, "E.164 Format")
        written == WrittenBy("create_qr_code")
    IN  IF Has(R, "E.164 Format") /\ e164 # <<>>
        THEN written = << [name |-> <<"contact_">> \o e164 \o <<".png">>,
                           by |-> "create_qr_code"] >>
        ELSE written = <<>>

\* create_location_map on record R: one file, of the given name, exactly when
\* "Latitude" and "Longitude" are both present, and no file otherwise
MapRule(R, name) ==
    LET written == WrittenBy("create_location_map")
    IN  IF Has(R, "Latitude") /\ Has(R, "Longitude")
        THEN written = << [name |-> name, by |-> "create_location_map"] >>
        ELSE written = <<>>

\* each generator prints one confirmation per file and nothing else: the
\* console holds the table, the rule, the confirmations and the disclaimer
NoOtherEffect == Len(console) = 3 + Len(files)

====
